---- MODULE Spec2Model ----
(***************************************************************************)
(* The request authorizer of justchecklists                                *)
(* (amplify/data/custom-authorizer.ts): table discovery, the access        *)
(* resolver checkChecklistAccess and the operation router `handler`,       *)
(* together with the entity store the authorizer reads.                    *)
(*                                                                         *)
(* JavaScript values are modelled as strings: "absent" is undefined/null,  *)
(* "true"/"false" are the booleans, every identifier is a string.          *)
(***************************************************************************)
EXTENDS Integers, Sequences, FiniteSets, TLC

VARIABLES
    checklist,         \* Checklist table:        id -> [author, isPublic]
    checklistShare,    \* ChecklistShare table:   <<checklistId, userId>> -> [role]
    checklistSection,  \* ChecklistSection table: id -> [checklistId]
    checklistItem,     \* ChecklistItem table:    id -> [sectionId]
    account,           \* the DynamoDB tables of the account, in ListTables order
    amplifyBranch,     \* process.env.AMPLIFY_BRANCH
    cachedTableNames,  \* the module-level cache of getTableNames
    mutations,         \* number of mutations executed so far (bounded)
    resp,              \* the handler invocation in progress: event, verdict, log, I/O
    acc                \* a direct call of checkChecklistAccess: arguments and result

vars == <<checklist, checklistShare, checklistSection, checklistItem, account,
          amplifyBranch, cachedTableNames, mutations, resp, acc>>

(***************************************************************************)
(* Bounds                                                                  *)
(***************************************************************************)
MaxSections == 1
MaxItems == 1
MaxMutations == 4

AllSectionIds == <<"s1", "s2", "s3">>
AllItemIds == <<"i1", "i2", "i3">>

ChecklistIds == {"c1"}
SectionIds == {AllSectionIds[i] : i \in 1..MaxSections}
ItemIds == {AllItemIds[i] : i \in 1..MaxItems}
UserIds == {"A", "B", "S"}

(***************************************************************************)
(* JavaScript values                                                       *)
(***************************************************************************)
Absent == "absent"

\* JavaScript truthiness of a modelled value (`!x`, `a || b`, `if (x)`).
Truthy(v) == v \notin {Absent, "", "false"}

\* An optional row: <<>> is a missing Item, <<row>> a present one.
NoItem == <<>>

(***************************************************************************)
(* Table discovery                                                         *)
(*                                                                         *)
(* A physical table name is family + "-" + deployment suffix, so           *)
(* name.startsWith(family + "-") is exactly name.family = family, and      *)
(* name.startsWith("Checklist") holds for the families beginning with it.  *)
(***************************************************************************)
NoTable == [family |-> "", dep |-> ""]

ChecklistFamilies ==
    {"Checklist", "ChecklistShare", "ChecklistSection", "ChecklistItem", "ChecklistArchive"}

StartsWithChecklist(name) == name.family \in ChecklistFamilies

NoTables ==
    [checklist |-> NoTable, checklistShare |-> NoTable,
     checklistSection |-> NoTable, checklistItem |-> NoTable]

Io(op, table, key) == [op |-> op, table |-> table, key |-> key]

\* getTableTags: the tags of the table, or [] when ListTagsOfResource raises.
getTableTags(t) == IF t.tagsReadable THEN t.tags ELSE <<>>

\* tags.find(t => t.Key === key)?.Value
TagValue(tags, key) ==
    IF \E i \in 1..Len(tags) : tags[i].Key = key
    THEN tags[CHOOSE i \in 1..Len(tags) :
                  /\ tags[i].Key = key
                  /\ \A j \in 1..(i - 1) : tags[j].Key # key].Value
    ELSE Absent

\* Variant of TableMatches: in branch mode the branch name is not compared.
TableMatchesTypeOnly(t, branch) ==
    LET tags == getTableTags(t)
        deploymentType == TagValue(tags, "amplify:deployment-type")
        isSandbox == branch = "sandbox"
    IN  IF isSandbox
        THEN deploymentType = "sandbox"
        ELSE deploymentType = "branch"

TableMatches(t, branch) ==
    LET tags == getTableTags(t)
        deploymentType == TagValue(tags, "amplify:deployment-type")
        branchName == TagValue(tags, "amplify:branch-name")
        isSandbox == branch = "sandbox"
    IN  IF isSandbox
        THEN deploymentType = "sandbox"
        ELSE deploymentType = "branch" /\ branchName = branch

AllFound(f) ==
    /\ f.checklist # NoTable
    /\ f.checklistShare # NoTable
    /\ f.checklistSection # NoTable
    /\ f.checklistItem # NoTable

\* The body of one iteration of the for loop over the listed tables.
ScanStep(t, found, branch) ==
    IF ~StartsWithChecklist(t.name) THEN found
    ELSE IF ~t.hasArn THEN found
    ELSE IF ~TableMatches(t, branch) THEN found
    ELSE IF t.name.family = "ChecklistShare" THEN [found EXCEPT !.checklistShare = t.name]
    ELSE IF t.name.family = "ChecklistSection" THEN [found EXCEPT !.checklistSection = t.name]
    ELSE IF t.name.family = "ChecklistItem" THEN [found EXCEPT !.checklistItem = t.name]
    ELSE IF t.name.family = "Checklist" THEN [found EXCEPT !.checklist = t.name]
    ELSE found

\* The I/O one iteration performs: DescribeTable, then ListTagsOfResource.
ScanIo(t) ==
    IF ~StartsWithChecklist(t.name) THEN <<>>
    ELSE IF ~t.hasArn THEN <<Io("DescribeTable", t.name, <<>>)>>
    ELSE <<Io("DescribeTable", t.name, <<>>), Io("ListTagsOfResource", t.name, <<>>)>>

RECURSIVE ScanTables(_, _, _, _, _)
ScanTables(tables, i, found, branch, io) ==
    IF i > Len(tables) \/ AllFound(found)
    THEN [found |-> found, io |-> io]
    ELSE ScanTables(tables, i + 1, ScanStep(tables[i], found, branch), branch,
                    io \o ScanIo(tables[i]))

\* Variant of getTableNames: the cache is not consulted.
getTableNamesUncached(cache) ==
    LET branch == IF Truthy(amplifyBranch) THEN amplifyBranch ELSE "sandbox"
        scan == ScanTables(account, 1, NoTables, branch,
                           <<Io("ListTables", NoTable, <<>>)>>)
    IN  IF ~AllFound(scan.found)
        THEN [threw |-> TRUE, tables |-> NoTables, cache |-> cache, io |-> scan.io]
        ELSE [threw |-> FALSE, tables |-> scan.found, cache |-> scan.found,
              io |-> scan.io]

\* getTableNames, given the cache; the result carries the new cache.
getTableNames(cache) ==
    IF cache # NoTables
    THEN [threw |-> FALSE, tables |-> cache, cache |-> cache, io |-> <<>>]
    ELSE
        LET branch == IF Truthy(amplifyBranch) THEN amplifyBranch ELSE "sandbox"
            scan == ScanTables(account, 1, NoTables, branch,
                               <<Io("ListTables", NoTable, <<>>)>>)
        IN  IF ~AllFound(scan.found)
            THEN [threw |-> TRUE, tables |-> NoTables, cache |-> cache, io |-> scan.io]
            ELSE [threw |-> FALSE, tables |-> scan.found, cache |-> scan.found,
                  io |-> scan.io]

(***************************************************************************)
(* The entity store: point reads by primary key                            *)
(***************************************************************************)
\* The deployment whose tables the API's resolvers write; the tables of every
\* other deployment in the account hold no rows of this application instance.
ThisDeployment == "d1"

TableContents(name) ==
    IF name.dep # ThisDeployment THEN {}
    ELSE IF name.family = "Checklist" THEN checklist
    ELSE IF name.family = "ChecklistShare" THEN checklistShare
    ELSE IF name.family = "ChecklistSection" THEN checklistSection
    ELSE IF name.family = "ChecklistItem" THEN checklistItem
    ELSE {}

KeyOf(family, row) ==
    IF family = "ChecklistShare" THEN <<row.checklistId, row.userId>> ELSE <<row.id>>

\* docClient.send(new GetCommand({ TableName, Key })).Item
GetCommand(tableName, key) ==
    LET rows == {r \in TableContents(tableName) : KeyOf(tableName.family, r) = key}
    IN  IF rows = {} THEN NoItem ELSE <<CHOOSE r \in rows : TRUE>>

(***************************************************************************)
(* Auth models                                                             *)
(***************************************************************************)
Roles == {"OWNER", "EDITOR", "VIEWER"}
Permissions == {"read", "create", "update", "delete", "subscribe", "share"}

\* Variant of ROLE_PERMISSIONS: VIEWER may also update.
ROLE_PERMISSIONS_ViewerUpdates ==
    [OWNER  |-> {"read", "create", "update", "delete", "subscribe", "share"},
     EDITOR |-> {"read", "create", "update", "subscribe"},
     VIEWER |-> {"read", "update", "subscribe"}]

ROLE_PERMISSIONS ==
    [OWNER  |-> {"read", "create", "update", "delete", "subscribe", "share"},
     EDITOR |-> {"read", "create", "update", "subscribe"},
     VIEWER |-> {"read", "subscribe"}]

(***************************************************************************)
(* checkChecklistAccess                                                    *)
(***************************************************************************)
\* A returned verdict. role is Absent when the returned object has no role.
Verdict(authorized, reason, role, io, cache) ==
    [threw |-> FALSE, authorized |-> authorized, reason |-> reason, role |-> role,
     io |-> io, cache |-> cache]

\* The call raised instead of returning.
Raised(io, cache) ==
    [threw |-> TRUE, authorized |-> FALSE, reason |-> Absent, role |-> Absent,
     io |-> io, cache |-> cache]

\* Variants of PublicGrants: read only; any permission.
PublicGrantsReadOnly(row, requiredPermission) ==
    Truthy(row.isPublic) /\ requiredPermission = "read"

PublicGrantsAnything(row, requiredPermission) == Truthy(row.isPublic)

\* Public checklists allow read and subscribe.
PublicGrants(row, requiredPermission) ==
    Truthy(row.isPublic) /\ requiredPermission \in {"read", "subscribe"}

\* Variant of IsAuthor: the author is not recognised.
IsAuthorNever(row, userId) == FALSE

IsAuthor(row, userId) == row.author = userId

\* role of a caller who is not the author: the share row's role, else null.
ShareRole(shareRes) == IF shareRes # NoItem THEN shareRes[1].role ELSE Absent

\* Variant of ShareGate: the explicit gate is missing.
ShareGateMissing(requiredPermission, role) == FALSE

\* The explicit gate on the share permission.
ShareGate(requiredPermission, role) == requiredPermission = "share" /\ role # "OWNER"

\* Variant of RoleHasPermission: the test is dropped.
RoleHasAnyPermission(role, requiredPermission) == TRUE

\* ROLE_PERMISSIONS[role].includes(requiredPermission)
RoleHasPermission(role, requiredPermission) == requiredPermission \in ROLE_PERMISSIONS[role]

\* Variant of NotFoundReason: the shorter reason string.
NotFoundReasonShort == "not_found"

NotFoundReason == "checklist_not_found"

\* The body of checkChecklistAccess once getTableNames has settled as tn.
AccessWithTables(checklistId, userId, requiredPermission, tn) ==
    LET tables == tn.tables
        checklistRes == GetCommand(tables.checklist, <<checklistId>>)
        io1 == tn.io \o <<Io("GetItem", tables.checklist, <<checklistId>>)>>
        row == checklistRes[1]
        shareRes == GetCommand(tables.checklistShare, <<checklistId, userId>>)
        io2 == io1 \o <<Io("GetItem", tables.checklistShare, <<checklistId, userId>>)>>
        role == IF IsAuthor(row, userId) THEN "OWNER" ELSE ShareRole(shareRes)
        io == IF IsAuthor(row, userId) THEN io1 ELSE io2
    IN  IF tn.threw THEN Raised(tn.io, tn.cache)
        ELSE IF checklistRes = NoItem
        THEN Verdict(FALSE, NotFoundReason, Absent, io1, tn.cache)
        ELSE IF PublicGrants(row, requiredPermission)
        THEN Verdict(TRUE, "public_checklist", Absent, io1, tn.cache)
        ELSE IF ~Truthy(role)
        THEN Verdict(FALSE, "no_role", Absent, io, tn.cache)
        ELSE IF ShareGate(requiredPermission, role)
        THEN Verdict(FALSE, "share_requires_owner", Absent, io, tn.cache)
        ELSE IF role \notin DOMAIN ROLE_PERMISSIONS
        THEN Raised(io, tn.cache)
        ELSE IF ~RoleHasPermission(role, requiredPermission)
        THEN Verdict(FALSE, "permission_denied", role, io, tn.cache)
        ELSE Verdict(TRUE, "authorized", role, io, tn.cache)

checkChecklistAccess(checklistId, userId, requiredPermission, cache) ==
    AccessWithTables(checklistId, userId, requiredPermission, getTableNames(cache))

(***************************************************************************)
(* Helpers of the handler                                                  *)
(*                                                                         *)
(* An operation name is the string pre \o rest, where pre is the longest   *)
(* of the prefixes the router tests with startsWith that the name begins   *)
(* with ("" when it begins with none): name.startsWith(p) is name.pre = p, *)
(* and two names are equal exactly when their strings are.                 *)
(***************************************************************************)
RoutedPrefixes == {"onCreate", "onUpdate", "onDelete", "listChecklistShare"}

Name(str) == [pre |-> "", rest |-> str]
Prefixed(pre, rest) == [pre |-> pre, rest |-> rest]
NoName == Name("")

StartsWith(name, prefix) == name.pre = prefix

\* decodeJWT: the claims of the payload segment, or null when the token does
\* not split, decode and parse. <<>> is null.
decodeJWT(token) == IF token.kind = "jwt" THEN <<token.claims>> ELSE <<>>

\* decoded['cognito:username'] || decoded.username || decoded.sub
UserIdOf(claims) ==
    IF Truthy(claims.cognitoUsername) THEN claims.cognitoUsername
    ELSE IF Truthy(claims.username) THEN claims.username
    ELSE claims.sub

\* getRootField: the first word after the first "{" of the query, which is the
\* alias of the first root selection when it has one, else its field name.
getRootField(query) ==
    IF Len(query) = 0 THEN NoName
    ELSE IF query[1].alias # NoName THEN query[1].alias
    ELSE query[1].field

Log(stage, reason, role) == [stage |-> stage, reason |-> reason, role |-> role]

\* What a branch of the router produces: the verdict, the records logged, the
\* lookups made, the cache, and whether an exception reached the catch block.
Out(isAuthorized, log, io, cache, caught) ==
    [isAuthorized |-> isAuthorized, log |-> log, io |-> io, cache |-> cache,
     caught |-> caught]

AllowWith(reason, io, cache) == Out(TRUE, <<Log("ALLOW", reason, Absent)>>, io, cache, FALSE)
DenyWith(reason, io, cache) == Out(FALSE, <<Log("DENY", reason, Absent)>>, io, cache, FALSE)

\* Variant of CatchBlock: the request is let through.
CatchBlockAllows(log, io, cache) == Out(TRUE, log, io, cache, TRUE)

\* catch (err) { console.error('AUTHZ_ERROR', err); return { isAuthorized: false }; }
CatchBlock(log, io, cache) == Out(FALSE, log, io, cache, TRUE)

\* logAuth({ stage: result.authorized ? 'ALLOW' : 'DENY', ...result });
\* return { isAuthorized: result.authorized }; a rejected call reaches the catch.
Delegated(result, io) ==
    IF result.threw
    THEN CatchBlock(<<>>, io \o result.io, result.cache)
    ELSE Out(result.authorized,
             <<Log(IF result.authorized THEN "ALLOW" ELSE "DENY",
                   result.reason, result.role)>>,
             io \o result.io, result.cache, FALSE)

\* const result = await checkChecklistAccess(id, userId, p); logAuth; return.
Delegate(checklistId, userId, permission, io, cache) ==
    Delegated(checkChecklistAccess(checklistId, userId, permission, cache), io)

\* !sectionRes.Item?.checklistId
SectionMissing(sectionRes) == sectionRes = NoItem \/ ~Truthy(sectionRes[1].checklistId)

\* !itemRes.Item?.sectionId
ItemMissing(itemRes) == itemRes = NoItem \/ ~Truthy(itemRes[1].sectionId)

\* Variant of ViaSection: the checklist is asked for the read permission.
ViaSectionAsRead(sectionId, userId, permission, tables, io, cache) ==
    LET sectionRes == GetCommand(tables.checklistSection, <<sectionId>>)
        io1 == io \o <<Io("GetItem", tables.checklistSection, <<sectionId>>)>>
    IN  IF SectionMissing(sectionRes)
        THEN DenyWith("section_not_found", io1, cache)
        ELSE Delegate(sectionRes[1].checklistId, userId, "read", io1, cache)

\* Look up the section to get its checklistId, then delegate.
ViaSection(sectionId, userId, permission, tables, io, cache) ==
    LET sectionRes == GetCommand(tables.checklistSection, <<sectionId>>)
        io1 == io \o <<Io("GetItem", tables.checklistSection, <<sectionId>>)>>
    IN  IF SectionMissing(sectionRes)
        THEN DenyWith("section_not_found", io1, cache)
        ELSE Delegate(sectionRes[1].checklistId, userId, permission, io1, cache)

\* Variant of ViaItem: a missing item is reported with the section's reason.
ViaItemSectionReason(itemId, userId, permission, tables, io, cache) ==
    LET itemRes == GetCommand(tables.checklistItem, <<itemId>>)
        io1 == io \o <<Io("GetItem", tables.checklistItem, <<itemId>>)>>
    IN  IF ItemMissing(itemRes)
        THEN DenyWith("section_not_found", io1, cache)
        ELSE ViaSection(itemRes[1].sectionId, userId, permission, tables, io1, cache)

\* Look up the item to get its sectionId, then the section, then delegate.
ViaItem(itemId, userId, permission, tables, io, cache) ==
    LET itemRes == GetCommand(tables.checklistItem, <<itemId>>)
        io1 == io \o <<Io("GetItem", tables.checklistItem, <<itemId>>)>>
    IN  IF ItemMissing(itemRes)
        THEN DenyWith("item_not_found", io1, cache)
        ELSE ViaSection(itemRes[1].sectionId, userId, permission, tables, io1, cache)

\* checklistRes.Item && checklistRes.Item.author === userId
CallerIsAuthorOf(checklistId, userId, tables) ==
    LET checklistRes == GetCommand(tables.checklist, <<checklistId>>)
    IN  checklistRes # NoItem /\ checklistRes[1].author = userId

AuthorLookupIo(checklistId, tables) == <<Io("GetItem", tables.checklist, <<checklistId>>)>>

(***************************************************************************)
(* The branches of the handler, in the order the code tests them           *)
(***************************************************************************)
IsSubscription(fieldName) ==
    \/ StartsWith(fieldName, "onCreate")
    \/ StartsWith(fieldName, "onUpdate")
    \/ StartsWith(fieldName, "onDelete")

IsShareList(fieldName) == StartsWith(fieldName, "listChecklistShare")

\* Variant of ListChecklistsBranch: any author filter scopes the list.
ListChecklistsAnyAuthor(v, userId, cache) ==
    IF Truthy(v.filterAuthor) \/ v.filterIsPublic = "true"
    THEN AllowWith("scoped_list", <<>>, cache)
    ELSE DenyWith("unscoped_list", <<>>, cache)

ListChecklistsBranch(v, userId, cache) ==
    IF v.filterAuthor = userId \/ v.filterIsPublic = "true"
    THEN AllowWith("scoped_list", <<>>, cache)
    ELSE DenyWith("unscoped_list", <<>>, cache)

\* The branches that take the checklist id from the arguments.
ChecklistBranch(checklistId, missingReason, userId, permission, cache) ==
    IF ~Truthy(checklistId)
    THEN DenyWith(missingReason, <<>>, cache)
    ELSE Delegate(checklistId, userId, permission, <<>>, cache)

\* The branches that take a section id from the arguments.
SectionBranch(sectionId, missingReason, userId, permission, tables, cache) ==
    IF ~Truthy(sectionId)
    THEN DenyWith(missingReason, <<>>, cache)
    ELSE ViaSection(sectionId, userId, permission, tables, <<>>, cache)

\* updateChecklistItem and deleteChecklistItem.
ItemBranch(itemId, userId, permission, tables, cache) ==
    IF ~Truthy(itemId)
    THEN DenyWith("missing_item_id", <<>>, cache)
    ELSE ViaItem(itemId, userId, permission, tables, <<>>, cache)

\* Variant of ListSharesBranch: a list filtered by any user id is allowed.
ListSharesAnyUser(v, userId, tables, cache) ==
    IF \/ v.userId = userId
       \/ Truthy(v.filterUserId)
       \/ Truthy(v.filterShareToken)
    THEN AllowWith("share_list_own", <<>>, cache)
    ELSE IF Truthy(v.filterChecklistId)
              /\ CallerIsAuthorOf(v.filterChecklistId, userId, tables)
    THEN AllowWith("owner_listing_shares", AuthorLookupIo(v.filterChecklistId, tables), cache)
    ELSE DenyWith("invalid_share_list",
                  IF Truthy(v.filterChecklistId)
                  THEN AuthorLookupIo(v.filterChecklistId, tables) ELSE <<>>,
                  cache)

ListSharesBranch(v, userId, tables, cache) ==
    IF \/ v.userId = userId
       \/ v.filterUserId = userId
       \/ Truthy(v.filterShareToken)
    THEN AllowWith("share_list_own", <<>>, cache)
    ELSE IF Truthy(v.filterChecklistId)
              /\ CallerIsAuthorOf(v.filterChecklistId, userId, tables)
    THEN AllowWith("owner_listing_shares", AuthorLookupIo(v.filterChecklistId, tables), cache)
    ELSE DenyWith("invalid_share_list",
                  IF Truthy(v.filterChecklistId)
                  THEN AuthorLookupIo(v.filterChecklistId, tables) ELSE <<>>,
                  cache)

GetShareBranch(v, userId, cache) ==
    IF v.userId = userId
    THEN AllowWith("get_own_share", <<>>, cache)
    ELSE DenyWith("cannot_get_other_share", <<>>, cache)

\* Variant of CreateShareBranch: any caller may share an existing checklist.
CreateShareAnyCaller(v, userId, tables, cache) ==
    IF v.inputUserId = userId
    THEN AllowWith("create_own_share", <<>>, cache)
    ELSE IF Truthy(v.inputChecklistId)
              /\ GetCommand(tables.checklist, <<v.inputChecklistId>>) # NoItem
    THEN AllowWith("author_creating_share", AuthorLookupIo(v.inputChecklistId, tables), cache)
    ELSE DenyWith("not_authorized_to_create_share",
                  IF Truthy(v.inputChecklistId)
                  THEN AuthorLookupIo(v.inputChecklistId, tables) ELSE <<>>,
                  cache)

CreateShareBranch(v, userId, tables, cache) ==
    IF v.inputUserId = userId
    THEN AllowWith("create_own_share", <<>>, cache)
    ELSE IF Truthy(v.inputChecklistId)
              /\ CallerIsAuthorOf(v.inputChecklistId, userId, tables)
    THEN AllowWith("author_creating_share", AuthorLookupIo(v.inputChecklistId, tables), cache)
    ELSE DenyWith("not_authorized_to_create_share",
                  IF Truthy(v.inputChecklistId)
                  THEN AuthorLookupIo(v.inputChecklistId, tables) ELSE <<>>,
                  cache)

ManageShareBranch(v, userId, tables, cache) ==
    LET checklistId == IF Truthy(v.checklistId) THEN v.checklistId ELSE v.inputChecklistId
    IN  IF Truthy(checklistId) /\ CallerIsAuthorOf(checklistId, userId, tables)
        THEN AllowWith("author_managing_share", AuthorLookupIo(checklistId, tables), cache)
        ELSE DenyWith("not_authorized_to_manage_share",
                      IF Truthy(checklistId)
                      THEN AuthorLookupIo(checklistId, tables) ELSE <<>>,
                      cache)

\* Variant of UnknownOperationBranch: default-allow.
UnknownOperationAllowed(cache) == AllowWith("unknown_operation", <<>>, cache)

UnknownOperationBranch(cache) == DenyWith("unknown_operation", <<>>, cache)

\* The body of the try block after getTableNames has returned `tables`.
Route(fieldName, v, userId, tables, cache) ==
    IF IsSubscription(fieldName) THEN AllowWith("subscription", <<>>, cache)
    ELSE IF fieldName = Name("listChecklists") THEN ListChecklistsBranch(v, userId, cache)
    ELSE IF fieldName = Name("createChecklist") THEN AllowWith("create_checklist", <<>>, cache)
    ELSE IF fieldName = Name("getChecklist")
    THEN ChecklistBranch(v.id, "missing_id", userId, "read", cache)
    ELSE IF fieldName = Name("updateChecklist")
    THEN ChecklistBranch(v.inputId, "missing_id", userId, "update", cache)
    ELSE IF fieldName = Name("deleteChecklist")
    THEN ChecklistBranch(v.inputId, "missing_id", userId, "delete", cache)
    ELSE IF fieldName = Name("listChecklistSections")
    THEN ChecklistBranch(v.filterChecklistId, "missing_checklistId", userId, "read", cache)
    ELSE IF fieldName = Name("createChecklistSection")
    THEN ChecklistBranch(v.inputChecklistId, "missing_checklistId", userId, "create", cache)
    ELSE IF fieldName = Name("updateChecklistSection")
    THEN SectionBranch(v.inputId, "missing_section_id", userId, "update", tables, cache)
    ELSE IF fieldName = Name("deleteChecklistSection")
    THEN SectionBranch(v.inputId, "missing_section_id", userId, "delete", tables, cache)
    ELSE IF fieldName = Name("listChecklistItems")
    THEN SectionBranch(v.filterSectionId, "missing_sectionId", userId, "read", tables, cache)
    ELSE IF fieldName = Name("createChecklistItem")
    THEN SectionBranch(v.inputSectionId, "missing_sectionId", userId, "create", tables, cache)
    ELSE IF fieldName = Name("updateChecklistItem")
    THEN ItemBranch(v.inputId, userId, "update", tables, cache)
    ELSE IF fieldName = Name("deleteChecklistItem")
    THEN ItemBranch(v.inputId, userId, "delete", tables, cache)
    ELSE IF IsShareList(fieldName) THEN ListSharesBranch(v, userId, tables, cache)
    ELSE IF fieldName = Name("getChecklistShare") THEN GetShareBranch(v, userId, cache)
    ELSE IF fieldName = Name("createChecklistShare")
    THEN CreateShareBranch(v, userId, tables, cache)
    ELSE IF fieldName \in {Name("updateChecklistShare"), Name("deleteChecklistShare")}
    THEN ManageShareBranch(v, userId, tables, cache)
    ELSE UnknownOperationBranch(cache)

(***************************************************************************)
(* handler                                                                 *)
(***************************************************************************)
\* The try block: getTableNames has settled as tn; a rejection reaches the
\* catch, otherwise the request is routed.
TryBlock(fieldName, variables, userId, tn) ==
    LET request == <<Log("REQUEST", Absent, Absent)>>
    IN  IF tn.threw THEN CatchBlock(request, tn.io, tn.cache)
        ELSE [Route(fieldName, variables, userId, tn.tables, tn.cache)
                 EXCEPT !.log = request \o @, !.io = tn.io \o @]

handler(event, cache) ==
    LET decoded == decodeJWT(event.token)
        userId == UserIdOf(decoded[1])
        fieldName == getRootField(event.query)
    IN  IF decoded = <<>> THEN Out(FALSE, <<>>, <<>>, cache, FALSE)
        ELSE IF ~Truthy(userId) THEN Out(FALSE, <<>>, <<>>, cache, FALSE)
        ELSE IF fieldName = NoName
        THEN AllowWith("subscription_connection", <<>>, cache)
        ELSE TryBlock(fieldName, event.variables, userId, getTableNames(cache))

\* The lookups whose failure rejects the awaiting code: ListTables,
\* DescribeTable and GetItem. getTableTags catches the failure of
\* ListTagsOfResource itself and returns no tags.
Rejects(e) == e.op # "ListTagsOfResource"

\* The invocation that would make the lookups out.io when its k-th lookup
\* rejects: the lookups after it are not made, nothing more is logged, the
\* cache is assigned only if discovery had completed, and the rejection
\* reaches the catch block of the handler.
Faulted(out, k, cache) ==
    CatchBlock(<<out.log[1]>>, SubSeq(out.io, 1, k),
               IF out.io[k].op = "GetItem" THEN out.cache ELSE cache)

(***************************************************************************)
(* Requests                                                                *)
(***************************************************************************)
NoClaims == [cognitoUsername |-> Absent, username |-> Absent, sub |-> Absent]

\* The id token of a signed-in user.
TokenOf(u) == [kind |-> "jwt", claims |-> [NoClaims EXCEPT !.cognitoUsername = u]]

\* Tokens that do not decode, carry no identifier, or carry it in a later claim.
OddTokens ==
    {[kind |-> "garbage", claims |-> NoClaims],
     [kind |-> "jwt", claims |-> NoClaims],
     [kind |-> "jwt", claims |-> [NoClaims EXCEPT !.sub = "A"]],
     [kind |-> "jwt", claims |-> [NoClaims EXCEPT !.username = "B", !.sub = "A"]]}

\* The argument paths the handler and the resolvers read; inputId is
\* variables.input.id, filterAuthor is variables.filter.author.eq, and so on.
NoVars ==
    [id |-> Absent, userId |-> Absent, checklistId |-> Absent,
     inputId |-> Absent, inputChecklistId |-> Absent, inputSectionId |-> Absent,
     inputUserId |-> Absent, inputRole |-> Absent, inputIsPublic |-> Absent,
     inputAuthor |-> Absent,
     filterAuthor |-> Absent, filterIsPublic |-> Absent, filterChecklistId |-> Absent,
     filterSectionId |-> Absent, filterUserId |-> Absent, filterShareToken |-> Absent]

\* A query with one root selection and no alias.
Query(field) == <<[alias |-> NoName, field |-> field]>>

Event(token, query, variables) == [token |-> token, query |-> query, variables |-> variables]

ArgChecklistIds == ChecklistIds \cup {Absent}
ArgSectionIds == SectionIds \cup {Absent}
ArgItemIds == ItemIds \cup {Absent}
Booleans == {"true", "false"}

SubscriptionNames ==
    {Prefixed("onCreate", "Checklist"), Prefixed("onUpdate", "ChecklistItem"),
     Prefixed("onDelete", "ChecklistShare")}

ShareListNames ==
    {Prefixed("listChecklistShare", "s"), Prefixed("listChecklistShare", "Bogus")}

UnknownNames == {Name("bogusOperation"), Name("getUserProgress")}

\* The operation names the router compares with ===.
ExactNames ==
    {Name(n) : n \in {"listChecklists", "createChecklist", "getChecklist",
                      "updateChecklist", "deleteChecklist", "listChecklistSections",
                      "createChecklistSection", "updateChecklistSection",
                      "deleteChecklistSection", "listChecklistItems",
                      "createChecklistItem", "updateChecklistItem",
                      "deleteChecklistItem", "getChecklistShare",
                      "createChecklistShare", "updateChecklistShare",
                      "deleteChecklistShare"}}

\* <<operation name, variables>> pairs a caller u may send.
ChecklistRequests(u) ==
    {<<Name("listChecklists"), NoVars>>}
    \cup {<<Name("listChecklists"), [NoVars EXCEPT !.filterAuthor = a]>> : a \in UserIds}
    \cup {<<Name("listChecklists"), [NoVars EXCEPT !.filterIsPublic = b]>> : b \in Booleans}
    \cup {<<Name("createChecklist"),
            [NoVars EXCEPT !.inputId = c, !.inputAuthor = u, !.inputIsPublic = b]>> :
            c \in ChecklistIds, b \in Booleans}
    \cup {<<Name("getChecklist"), [NoVars EXCEPT !.id = c]>> : c \in ArgChecklistIds}
    \cup {<<Name("updateChecklist"), [NoVars EXCEPT !.inputId = c, !.inputIsPublic = b]>> :
            c \in ArgChecklistIds, b \in Booleans}
    \cup {<<Name("updateChecklist"), [NoVars EXCEPT !.inputId = c, !.inputAuthor = a]>> :
            c \in ChecklistIds, a \in UserIds}
    \cup {<<Name("deleteChecklist"), [NoVars EXCEPT !.inputId = c]>> : c \in ArgChecklistIds}

SectionRequests ==
    {<<Name("listChecklistSections"), [NoVars EXCEPT !.filterChecklistId = c]>> :
        c \in ArgChecklistIds}
    \cup {<<Name("createChecklistSection"),
            [NoVars EXCEPT !.inputChecklistId = c, !.inputId = s]>> :
            c \in ArgChecklistIds, s \in SectionIds}
    \cup {<<Name(n), [NoVars EXCEPT !.inputId = s]>> :
            n \in {"updateChecklistSection", "deleteChecklistSection"}, s \in ArgSectionIds}

ItemRequests ==
    {<<Name("listChecklistItems"), [NoVars EXCEPT !.filterSectionId = s]>> :
        s \in ArgSectionIds}
    \cup {<<Name("createChecklistItem"),
            [NoVars EXCEPT !.inputSectionId = s, !.inputId = i]>> :
            s \in ArgSectionIds, i \in ItemIds}
    \cup {<<Name(n), [NoVars EXCEPT !.inputId = i]>> :
            n \in {"updateChecklistItem", "deleteChecklistItem"}, i \in ArgItemIds}

ShareListVariables ==
    {NoVars, [NoVars EXCEPT !.filterShareToken = "tok"]}
    \cup {[NoVars EXCEPT !.userId = a] : a \in UserIds}
    \cup {[NoVars EXCEPT !.filterUserId = a] : a \in UserIds}
    \cup {[NoVars EXCEPT !.filterChecklistId = c] : c \in ChecklistIds}

ShareRequests ==
    {<<n, v>> : n \in ShareListNames, v \in ShareListVariables}
    \cup {<<Name("getChecklistShare"), [NoVars EXCEPT !.checklistId = c, !.userId = a]>> :
            c \in ChecklistIds, a \in UserIds \cup {Absent}}
    \cup {<<Name("createChecklistShare"),
            [NoVars EXCEPT !.inputChecklistId = c, !.inputUserId = a, !.inputRole = r]>> :
            c \in ArgChecklistIds, a \in UserIds, r \in Roles}
    \cup {<<Name("updateChecklistShare"),
            [NoVars EXCEPT !.inputChecklistId = c, !.inputUserId = a, !.inputRole = r]>> :
            c \in ChecklistIds, a \in UserIds, r \in Roles}
    \cup {<<Name("deleteChecklistShare"),
            [NoVars EXCEPT !.inputChecklistId = c, !.inputUserId = a]>> :
            c \in ArgChecklistIds, a \in UserIds}

OtherRequests ==
    {<<n, NoVars>> : n \in SubscriptionNames \cup UnknownNames}

RequestsOf(u) ==
    ChecklistRequests(u) \cup SectionRequests \cup ItemRequests \cup ShareRequests
        \cup OtherRequests

Events ==
    UNION {{Event(TokenOf(u), Query(r[1]), r[2]) : r \in RequestsOf(u)} : u \in UserIds}
    \cup {Event(TokenOf(u), <<>>, NoVars) : u \in UserIds}
    \cup {Event(t, Query(n), NoVars) :
            t \in OddTokens, n \in {Name("createChecklist"), Prefixed("onCreate", "Checklist")}}
    \cup {Event(t, <<>>, NoVars) : t \in OddTokens}

(***************************************************************************)
(* The resolvers that run once a request is authorized. Each writes one    *)
(* row; nothing cascades.                                                  *)
(***************************************************************************)
Store == [checklist |-> checklist, checklistShare |-> checklistShare,
          checklistSection |-> checklistSection, checklistItem |-> checklistItem]

HasKey(rows, family, key) == \E r \in rows : KeyOf(family, r) = key
WithoutKey(rows, family, key) == {r \in rows : KeyOf(family, r) # key}

ApplyField(st, field, v) ==
    IF field = Name("createChecklist")
    THEN IF Truthy(v.inputId) /\ ~HasKey(st.checklist, "Checklist", <<v.inputId>>)
         THEN [st EXCEPT !.checklist = @ \cup
                  {[id |-> v.inputId, author |-> v.inputAuthor,
                    isPublic |-> IF v.inputIsPublic = Absent THEN "false"
                                 ELSE v.inputIsPublic]}]
         ELSE st
    ELSE IF field = Name("updateChecklist")
    THEN [st EXCEPT !.checklist =
             {IF r.id = v.inputId
              THEN [r EXCEPT !.isPublic = IF v.inputIsPublic # Absent
                                          THEN v.inputIsPublic ELSE @,
                             !.author = IF v.inputAuthor # Absent THEN v.inputAuthor ELSE @]
              ELSE r : r \in @}]
    ELSE IF field = Name("deleteChecklist")
    THEN [st EXCEPT !.checklist = WithoutKey(@, "Checklist", <<v.inputId>>)]
    ELSE IF field = Name("createChecklistSection")
    THEN IF Truthy(v.inputId) /\ Truthy(v.inputChecklistId)
            /\ ~HasKey(st.checklistSection, "ChecklistSection", <<v.inputId>>)
         THEN [st EXCEPT !.checklistSection = @ \cup
                  {[id |-> v.inputId, checklistId |-> v.inputChecklistId]}]
         ELSE st
    ELSE IF field = Name("deleteChecklistSection")
    THEN [st EXCEPT !.checklistSection = WithoutKey(@, "ChecklistSection", <<v.inputId>>)]
    ELSE IF field = Name("createChecklistItem")
    THEN IF Truthy(v.inputId) /\ Truthy(v.inputSectionId)
            /\ ~HasKey(st.checklistItem, "ChecklistItem", <<v.inputId>>)
         THEN [st EXCEPT !.checklistItem = @ \cup
                  {[id |-> v.inputId, sectionId |-> v.inputSectionId]}]
         ELSE st
    ELSE IF field = Name("deleteChecklistItem")
    THEN [st EXCEPT !.checklistItem = WithoutKey(@, "ChecklistItem", <<v.inputId>>)]
    ELSE IF field = Name("createChecklistShare")
    THEN IF Truthy(v.inputChecklistId) /\ Truthy(v.inputUserId)
            /\ ~HasKey(st.checklistShare, "ChecklistShare",
                       <<v.inputChecklistId, v.inputUserId>>)
         THEN [st EXCEPT !.checklistShare = @ \cup
                  {[checklistId |-> v.inputChecklistId, userId |-> v.inputUserId,
                    role |-> v.inputRole]}]
         ELSE st
    ELSE IF field = Name("updateChecklistShare")
    THEN [st EXCEPT !.checklistShare =
             {IF r.checklistId = v.inputChecklistId /\ r.userId = v.inputUserId
                 /\ v.inputRole # Absent
              THEN [r EXCEPT !.role = v.inputRole] ELSE r : r \in @}]
    ELSE IF field = Name("deleteChecklistShare")
    THEN [st EXCEPT !.checklistShare =
             WithoutKey(@, "ChecklistShare", <<v.inputChecklistId, v.inputUserId>>)]
    ELSE st

\* Every root selection of the query is resolved, in order, by its field name.
RECURSIVE ApplyQuery(_, _, _, _)
ApplyQuery(st, query, i, v) ==
    IF i > Len(query) THEN st
    ELSE ApplyQuery(ApplyField(st, query[i].field, v), query, i + 1, v)

(***************************************************************************)
(* The account's tables and the deployment's environment                   *)
(***************************************************************************)
Tag(key, value) == [Key |-> key, Value |-> value]

SandboxTable(family, dep) ==
    [name |-> [family |-> family, dep |-> dep], hasArn |-> TRUE, tagsReadable |-> TRUE,
     tags |-> <<Tag("amplify:deployment-type", "sandbox")>>]

\* One sandbox deployment, listed in the alphabetical order of ListTables.
SandboxAccount ==
    <<SandboxTable("Checklist", ThisDeployment), SandboxTable("ChecklistItem", ThisDeployment),
      SandboxTable("ChecklistSection", ThisDeployment),
      SandboxTable("ChecklistShare", ThisDeployment),
      SandboxTable("UserProgress", ThisDeployment)>>

\* The same account while the share table is not there.
IncompleteAccount == <<SandboxAccount[1], SandboxAccount[2], SandboxAccount[3], SandboxAccount[5]>>

\* <<tables of the account, AMPLIFY_BRANCH>>
Environments == {<<SandboxAccount, Absent>>, <<IncompleteAccount, Absent>>}

(***************************************************************************)
(* The state machine                                                       *)
(***************************************************************************)
Idle == [kind |-> "idle"]

Init ==
    /\ checklist = {}
    /\ checklistShare = {}
    /\ checklistSection = {}
    /\ checklistItem = {}
    /\ \E env \in Environments : account = env[1] /\ amplifyBranch = env[2]
    /\ cachedTableNames = NoTables
    /\ mutations = 0
    /\ resp = Idle
    /\ acc = Idle

\* The invocation's outcome is recorded and the cache keeps what it computed.
Handled(ev, out) ==
    /\ resp' = [kind |-> "handled", event |-> ev, isAuthorized |-> out.isAuthorized,
                log |-> out.log, io |-> out.io, caught |-> out.caught, fault |-> 0]
    /\ cachedTableNames' = out.cache

\* The Lambda is invoked with an event and computes its verdict.
Invoke(ev) ==
    /\ resp = Idle
    /\ acc = Idle
    /\ Handled(ev, handler(ev, cachedTableNames))
    /\ UNCHANGED <<checklist, checklistShare, checklistSection, checklistItem, account,
                   amplifyBranch, mutations, acc>>

\* An authorized request is resolved: its mutation is written to the store.
Execute ==
    /\ resp # Idle
    /\ resp.isAuthorized
    /\ mutations < MaxMutations
    /\ LET st == ApplyQuery(Store, resp.event.query, 1, resp.event.variables)
       IN  /\ st # Store
           /\ checklist' = st.checklist
           /\ checklistShare' = st.checklistShare
           /\ checklistSection' = st.checklistSection
           /\ checklistItem' = st.checklistItem
    /\ mutations' = mutations + 1
    /\ resp' = Idle
    /\ UNCHANGED <<account, amplifyBranch, cachedTableNames, acc>>

\* The request ends without a write: it was denied, it reads, or it is dropped.
Return ==
    /\ resp # Idle
    /\ resp' = Idle
    /\ UNCHANGED <<checklist, checklistShare, checklistSection, checklistItem, account,
                   amplifyBranch, cachedTableNames, mutations, acc>>

Checked(c, u, p, result) ==
    /\ acc' = [kind |-> "checked", checklistId |-> c, userId |-> u,
               permission |-> p, result |-> result]
    /\ cachedTableNames' = result.cache

\* checkChecklistAccess is called with a checklist id, a user and a permission.
CheckAccess(c, u, p) ==
    /\ resp = Idle
    /\ acc = Idle
    /\ Checked(c, u, p, checkChecklistAccess(c, u, p, cachedTableNames))
    /\ UNCHANGED <<checklist, checklistShare, checklistSection, checklistItem, account,
                   amplifyBranch, mutations, resp>>

CheckReturn ==
    /\ acc # Idle
    /\ acc' = Idle
    /\ UNCHANGED <<checklist, checklistShare, checklistSection, checklistItem, account,
                   amplifyBranch, cachedTableNames, mutations, resp>>

Next ==
    \/ \E ev \in Events : Invoke(ev)
    \/ Execute
    \/ Return
    \/ \E c \in ChecklistIds, u \in UserIds, p \in Permissions : CheckAccess(c, u, p)
    \/ CheckReturn

Spec == Init /\ [][Next]_vars

(***************************************************************************)
(* Share management with two checklists: each of two users can be the      *)
(* author of one checklist and a guest of the other.                       *)
(***************************************************************************)
TwoChecklists == {"c1", "c2"}
TwoUsers == {"A", "B"}

\* <<operation name, variables>> pairs of caller u. updateChecklistShare and
\* deleteChecklistShare carry the share's key in variables.input and may carry
\* a top-level variables.checklistId as well.
ManageShareRequests(u) ==
    {<<Name("createChecklist"),
       [NoVars EXCEPT !.inputId = c, !.inputAuthor = u, !.inputIsPublic = "false"]>> :
       c \in TwoChecklists}
    \cup {<<Name("createChecklistShare"),
            [NoVars EXCEPT !.inputChecklistId = c, !.inputUserId = a, !.inputRole = r]>> :
            c \in TwoChecklists, a \in TwoUsers, r \in Roles}
    \cup {<<Name("updateChecklistShare"),
            [NoVars EXCEPT !.checklistId = t, !.inputChecklistId = c, !.inputUserId = a,
                           !.inputRole = r]>> :
            t \in TwoChecklists \cup {Absent}, c \in TwoChecklists \cup {Absent},
            a \in TwoUsers, r \in Roles}
    \cup {<<Name("deleteChecklistShare"),
            [NoVars EXCEPT !.checklistId = t, !.inputChecklistId = c, !.inputUserId = a]>> :
            t \in TwoChecklists \cup {Absent}, c \in TwoChecklists \cup {Absent},
            a \in TwoUsers}

ManageShareEvents ==
    UNION {{Event(TokenOf(u), Query(r[1]), r[2]) : r \in ManageShareRequests(u)} :
             u \in TwoUsers}

ShareNext ==
    \/ \E ev \in ManageShareEvents : Invoke(ev)
    \/ Execute
    \/ Return

ShareSpec == Init /\ [][ShareNext]_vars

(***************************************************************************)
(* Query strings with an alias on the first root selection, or with more   *)
(* than one root selection. getRootField reads the first word after the    *)
(* first "{"; the API resolves every root selection by its field name.     *)
(***************************************************************************)
Aliased(alias, field) == <<[alias |-> alias, field |-> field]>>

QueryRequests(u) ==
    {<<Query(Name("createChecklist")),
       [NoVars EXCEPT !.inputId = "c1", !.inputAuthor = u, !.inputIsPublic = "false"]>>,
     <<Query(Name("getChecklist")), [NoVars EXCEPT !.id = "c1"]>>,
     <<Query(Name("updateChecklist")), [NoVars EXCEPT !.inputId = "c1", !.inputIsPublic = "true"]>>,
     <<Query(Name("deleteChecklist")), [NoVars EXCEPT !.inputId = "c1"]>>,
     <<Aliased(Name("getChecklist"), Name("getChecklist")), [NoVars EXCEPT !.id = "c1"]>>,
     <<Aliased(Name("createChecklist"), Name("deleteChecklist")),
       [NoVars EXCEPT !.inputId = "c1"]>>,
     <<Query(Name("listChecklists")) \o Query(Name("deleteChecklist")),
       [NoVars EXCEPT !.filterAuthor = u, !.inputId = "c1"]>>,
     <<Query(Name("listChecklists")) \o Query(Name("getChecklist")),
       [NoVars EXCEPT !.filterIsPublic = "true", !.id = "c1"]>>}

QueryEvents ==
    UNION {{Event(TokenOf(u), r[1], r[2]) : r \in QueryRequests(u)} : u \in TwoUsers}

QueryNext ==
    \/ \E ev \in QueryEvents : Invoke(ev)
    \/ Execute
    \/ Return

QuerySpec == Init /\ [][QueryNext]_vars

(***************************************************************************)
(* Invites. ShareLinkManager.generateLink stores an invite as a share row  *)
(* whose userId is "pending_" + token; acceptShareLink looks the invite up *)
(* by its token and creates a share for the accepting user with the        *)
(* invite's role.                                                          *)
(***************************************************************************)
PendingUser == "pending_tok"
IsPending(u) == u = PendingUser

InviteRequests(u) ==
    {<<Name("createChecklist"),
       [NoVars EXCEPT !.inputId = "c1", !.inputAuthor = u, !.inputIsPublic = "false"]>>,
     <<Name("getChecklist"), [NoVars EXCEPT !.id = "c1"]>>,
     <<Prefixed("listChecklistShare", "s"), [NoVars EXCEPT !.filterShareToken = "tok"]>>}
    \cup {<<Name("createChecklistShare"),
            [NoVars EXCEPT !.inputChecklistId = "c1", !.inputUserId = a, !.inputRole = r]>> :
            a \in TwoUsers \cup {PendingUser}, r \in Roles}
    \cup {<<Name("updateChecklistShare"),
            [NoVars EXCEPT !.inputChecklistId = "c1", !.inputUserId = a, !.inputRole = r]>> :
            a \in TwoUsers, r \in Roles}
    \cup {<<Name("deleteChecklistShare"),
            [NoVars EXCEPT !.inputChecklistId = "c1", !.inputUserId = a]>> :
            a \in TwoUsers \cup {PendingUser}}

InviteEvents ==
    UNION {{Event(TokenOf(u), Query(r[1]), r[2]) : r \in InviteRequests(u)} : u \in TwoUsers}

InviteNext ==
    \/ \E ev \in InviteEvents : Invoke(ev)
    \/ Execute
    \/ Return

InviteSpec == Init /\ [][InviteNext]_vars

(***************************************************************************)
(* checkChecklistAccess over a share table as it is found: the function    *)
(* reads shareRes.Item.role without validating it, so the stored role is   *)
(* any string, or missing.                                                 *)
(***************************************************************************)
StoredRoles == Roles \cup {"ADMIN", "owner", "", Absent}
NoRow == "norow"
Guests == UserIds \ {"A"}

\* One checklist of author A, private or public, and for each other user no
\* share row or a share row with some stored role.
StoredInit ==
    /\ \E b \in Booleans : checklist = {[id |-> "c1", author |-> "A", isPublic |-> b]}
    /\ \E f \in [Guests -> StoredRoles \cup {NoRow}] :
           checklistShare =
               {[checklistId |-> "c1", userId |-> u, role |-> f[u]] :
                   u \in {g \in Guests : f[g] # NoRow}}
    /\ checklistSection = {}
    /\ checklistItem = {}
    /\ account = SandboxAccount
    /\ amplifyBranch = Absent
    /\ cachedTableNames = NoTables
    /\ mutations = 0
    /\ resp = Idle
    /\ acc = Idle

StoredNext ==
    \/ \E c \in ChecklistIds, u \in UserIds, p \in Permissions : CheckAccess(c, u, p)
    \/ CheckReturn

StoredSpec == StoredInit /\ [][StoredNext]_vars

(***************************************************************************)
(* Table discovery in an account that holds several deployments, and a     *)
(* process whose account and environment change while it lives.            *)
(***************************************************************************)
Deployments == {"d1", "d2"}
DeploymentOrder == <<"d1", "d2">>
FamilyOrder == <<"Checklist", "ChecklistItem", "ChecklistSection", "ChecklistShare",
                 "UserProgress">>

\* What a deployment slot holds: nothing, a sandbox, or the backend of the
\* branch main or dev.
Kinds == {"none", "sandbox", "main", "dev"}

TagsOf(kind) ==
    IF kind = "sandbox"
    THEN <<Tag("amplify:deployment-type", "sandbox")>>
    ELSE <<Tag("amplify:deployment-type", "branch"), Tag("amplify:branch-name", kind)>>

\* bad names the table whose ListTagsOfResource fails.
DeployedTable(family, dep, kind, bad) ==
    [name |-> [family |-> family, dep |-> dep], hasArn |-> TRUE,
     tagsReadable |-> <<family, dep>> # bad, tags |-> TagsOf(kind)]

\* The tables ListTables returns, in the order of their names.
AccountOf(kinds, bad) ==
    LET n == Len(DeploymentOrder)
        all == [i \in 1..(Len(FamilyOrder) * n) |->
                   DeployedTable(FamilyOrder[((i - 1) \div n) + 1],
                                 DeploymentOrder[((i - 1) % n) + 1],
                                 kinds[DeploymentOrder[((i - 1) % n) + 1]], bad)]
    IN  SelectSeq(all, LAMBDA t : kinds[t.name.dep] # "none")

NoBad == <<"", "">>

Accounts ==
    {AccountOf(k, bad) :
        k \in [Deployments -> Kinds],
        bad \in ((ChecklistFamilies \ {"ChecklistArchive"}) \X Deployments) \cup {NoBad}}

\* The values of AMPLIFY_BRANCH.
BranchSignals == {Absent, "sandbox", "main", "dev"}

DiscoveryInit ==
    /\ checklist = {}
    /\ checklistShare = {}
    /\ checklistSection = {}
    /\ checklistItem = {}
    /\ account \in Accounts
    /\ amplifyBranch \in BranchSignals
    /\ cachedTableNames = NoTables
    /\ mutations = 0
    /\ resp = Idle
    /\ acc = Idle

\* The outcome of a call of getTableNames: before is the cache the call
\* found, retried tells that the call before it in this process had failed.
Resolved(result, before, retried) ==
    /\ acc' = [kind |-> "resolved", result |-> result, before |-> before,
               retried |-> retried]
    /\ cachedTableNames' = result.cache

\* getTableNames is called.
Resolve ==
    /\ resp = Idle
    /\ Resolved(getTableNames(cachedTableNames), cachedTableNames,
                acc # Idle /\ acc.result.threw)
    /\ UNCHANGED <<checklist, checklistShare, checklistSection, checklistItem, account,
                   amplifyBranch, mutations, resp>>

\* Tables are created, deleted or retagged while the process lives.
Redeploy ==
    /\ resp = Idle
    /\ \E a \in Accounts : a # account /\ account' = a
    /\ acc' = Idle
    /\ UNCHANGED <<checklist, checklistShare, checklistSection, checklistItem,
                   amplifyBranch, cachedTableNames, mutations, resp>>

\* The environment signal changes while the process lives.
SetBranch ==
    /\ resp = Idle
    /\ \E b \in BranchSignals : b # amplifyBranch /\ amplifyBranch' = b
    /\ acc' = Idle
    /\ UNCHANGED <<checklist, checklistShare, checklistSection, checklistItem,
                   account, cachedTableNames, mutations, resp>>

DiscoveryEvents ==
    {Event(TokenOf("A"), Query(Name("getChecklist")), [NoVars EXCEPT !.id = "c1"]),
     Event(TokenOf("A"), Query(Name("listChecklists")), [NoVars EXCEPT !.filterAuthor = "A"])}

DiscoveryNext ==
    \/ Resolve
    \/ CheckReturn
    \/ Redeploy
    \/ SetBranch
    \/ \E ev \in DiscoveryEvents : Invoke(ev)
    \/ Return

DiscoverySpec == DiscoveryInit /\ [][DiscoveryNext]_vars

(***************************************************************************)
(* Concurrent calls of getTableNames. A call runs until its next await;    *)
(* between two awaits of one call any other call may run. The tables of    *)
(* the account and AMPLIFY_BRANCH do not change.                           *)
(***************************************************************************)
Callers == {"p1", "p2"}

\* A call that has not started: pc is the await the call is suspended at.
NotCalled == [pc |-> "idle", list |-> <<>>, i |-> 0, found |-> NoTables, branch |-> Absent,
              threw |-> FALSE, tables |-> NoTables]

\* Variant of CachedValue: the item table is stored in the place of the
\* checklist table.
CachedValueSwapped(found) == [found EXCEPT !.checklist = found.checklistItem]

\* cachedTableNames = { checklist, checklistShare, checklistSection, checklistItem }
CachedValue(found) == found

RaceInit ==
    /\ checklist = {}
    /\ checklistShare = {}
    /\ checklistSection = {}
    /\ checklistItem = {}
    /\ account \in Accounts
    /\ amplifyBranch \in BranchSignals
    /\ cachedTableNames = NoTables
    /\ mutations = 0
    /\ resp = Idle
    /\ acc = [kind |-> "racing", calls |-> [p \in Callers |-> NotCalled], writes |-> <<>>]

RaceUnchanged ==
    UNCHANGED <<checklist, checklistShare, checklistSection, checklistItem, account,
                amplifyBranch, mutations, resp>>

\* The call starts: it returns the cache if there is one, else it reads
\* AMPLIFY_BRANCH and sends ListTables.
CallStart(p) ==
    /\ acc.calls[p].pc = "idle"
    /\ IF cachedTableNames # NoTables
       THEN acc' = [acc EXCEPT !.calls[p].pc = "done", !.calls[p].tables = cachedTableNames]
       ELSE acc' = [acc EXCEPT !.calls[p].pc = "listing",
                               !.calls[p].branch = IF Truthy(amplifyBranch)
                                                   THEN amplifyBranch ELSE "sandbox"]
    /\ UNCHANGED cachedTableNames
    /\ RaceUnchanged

\* ListTables has answered.
CallListed(p) ==
    /\ acc.calls[p].pc = "listing"
    /\ acc' = [acc EXCEPT !.calls[p].pc = "scanning", !.calls[p].list = account,
                          !.calls[p].i = 1]
    /\ UNCHANGED cachedTableNames
    /\ RaceUnchanged

\* One iteration of the loop: DescribeTable and ListTagsOfResource have
\* answered for the i-th table.
CallScan(p) ==
    /\ acc.calls[p].pc = "scanning"
    /\ acc.calls[p].i <= Len(acc.calls[p].list)
    /\ ~AllFound(acc.calls[p].found)
    /\ acc' = [acc EXCEPT !.calls[p].found =
                              ScanStep(acc.calls[p].list[acc.calls[p].i], @,
                                       acc.calls[p].branch),
                          !.calls[p].i = @ + 1]
    /\ UNCHANGED cachedTableNames
    /\ RaceUnchanged

\* The loop has ended: the call throws, or assigns the cache and returns it.
CallEnd(p) ==
    /\ acc.calls[p].pc = "scanning"
    /\ acc.calls[p].i > Len(acc.calls[p].list) \/ AllFound(acc.calls[p].found)
    /\ IF ~AllFound(acc.calls[p].found)
       THEN /\ acc' = [acc EXCEPT !.calls[p].pc = "done", !.calls[p].threw = TRUE]
            /\ UNCHANGED cachedTableNames
       ELSE /\ cachedTableNames' = CachedValue(acc.calls[p].found)
            /\ acc' = [acc EXCEPT !.calls[p].pc = "done",
                                  !.calls[p].tables = CachedValue(acc.calls[p].found),
                                  !.writes = Append(@, CachedValue(acc.calls[p].found))]
    /\ RaceUnchanged

\* The caller has taken the result and may call again.
CallAgain(p) ==
    /\ acc.calls[p].pc = "done"
    /\ acc' = [acc EXCEPT !.calls[p] = NotCalled]
    /\ UNCHANGED cachedTableNames
    /\ RaceUnchanged

RaceNext ==
    \E p \in Callers :
        \/ CallStart(p)
        \/ CallListed(p)
        \/ CallScan(p)
        \/ CallEnd(p)
        \/ CallAgain(p)

RaceSpec == RaceInit /\ [][RaceNext]_vars

(***************************************************************************)
(* Requests during which a lookup fails                                    *)
(***************************************************************************)
\* Requests of two users that between them make every kind of lookup.
FaultRequests(u) ==
    {<<Name("createChecklist"),
       [NoVars EXCEPT !.inputId = "c1", !.inputAuthor = u, !.inputIsPublic = "false"]>>,
     <<Name("createChecklistSection"),
       [NoVars EXCEPT !.inputChecklistId = "c1", !.inputId = "s1"]>>,
     <<Name("createChecklistItem"), [NoVars EXCEPT !.inputSectionId = "s1", !.inputId = "i1"]>>,
     <<Name("createChecklistShare"),
       [NoVars EXCEPT !.inputChecklistId = "c1", !.inputUserId = "B", !.inputRole = "EDITOR"]>>,
     <<Name("getChecklist"), [NoVars EXCEPT !.id = "c1"]>>,
     <<Name("listChecklists"), [NoVars EXCEPT !.filterAuthor = u]>>,
     <<Name("listChecklistItems"), [NoVars EXCEPT !.filterSectionId = "s1"]>>,
     <<Name("updateChecklistItem"), [NoVars EXCEPT !.inputId = "i1"]>>,
     <<Name("deleteChecklistSection"), [NoVars EXCEPT !.inputId = "s1"]>>,
     <<Prefixed("listChecklistShare", "s"), [NoVars EXCEPT !.filterChecklistId = "c1"]>>,
     <<Name("deleteChecklistShare"),
       [NoVars EXCEPT !.inputChecklistId = "c1", !.inputUserId = "B"]>>,
     <<Prefixed("onCreate", "Checklist"), NoVars>>}

FaultEvents ==
    UNION {{Event(TokenOf(u), Query(r[1]), r[2]) : r \in FaultRequests(u)} : u \in TwoUsers}

\* One of the lookups the invocation makes rejects.
HandledFaulty(ev, out, cache) ==
    \E k \in 1..Len(out.io) :
        /\ Rejects(out.io[k])
        /\ resp' = [kind |-> "handled", event |-> ev,
                    isAuthorized |-> Faulted(out, k, cache).isAuthorized,
                    log |-> Faulted(out, k, cache).log, io |-> Faulted(out, k, cache).io,
                    caught |-> Faulted(out, k, cache).caught, fault |-> k]
        /\ cachedTableNames' = Faulted(out, k, cache).cache

\* The Lambda is invoked and a lookup fails during the invocation.
InvokeFaulty(ev) ==
    /\ resp = Idle
    /\ acc = Idle
    /\ HandledFaulty(ev, handler(ev, cachedTableNames), cachedTableNames)
    /\ UNCHANGED <<checklist, checklistShare, checklistSection, checklistItem, account,
                   amplifyBranch, mutations, acc>>

FaultNext ==
    \/ \E ev \in FaultEvents : Invoke(ev)
    \/ \E ev \in FaultEvents : InvokeFaulty(ev)
    \/ Execute
    \/ Return

FaultSpec == Init /\ [][FaultNext]_vars

(***************************************************************************)
(* Properties                                                              *)
(***************************************************************************)
\* The positions of the share-table reads in a sequence of lookups.
ShareLookups(io) ==
    {i \in 1..Len(io) : io[i].op = "GetItem" /\ io[i].table.family = "ChecklistShare"}

\* The table families of the entity reads, in the order they were made.
EntityLookups(io) ==
    LET gets == SelectSeq(io, LAMBDA e : e.op = "GetItem")
    IN  [i \in 1..Len(gets) |-> gets[i].table.family]

IsPrefixOf(s, t) == Len(s) <= Len(t) /\ s = SubSeq(t, 1, Len(s))

HasShare(c, u, role) ==
    \E s \in checklistShare : s.checklistId = c /\ s.userId = u /\ s.role = role

NoShare(c, u) == ~\E s \in checklistShare : s.checklistId = c /\ s.userId = u

\* The caller identity the handler extracts from the event's token.
CallerOf(ev) == IF ev.token.kind = "jwt" THEN UserIdOf(ev.token.claims) ELSE Absent

\* The reason of the last record the handler logged.
LastReason == IF Len(resp.log) = 0 THEN Absent ELSE resp.log[Len(resp.log)].reason

\* C1: for a checklist whose isPublic flag is true, checkChecklistAccess with
\* permission read or subscribe returns authorized=true for every user, and
\* the share table is not read.
C1_PublicReadSubscribe ==
    acc # Idle =>
        \A r \in checklist :
            (/\ r.id = acc.checklistId
             /\ r.isPublic = "true"
             /\ acc.permission \in {"read", "subscribe"})
            => /\ ~acc.result.threw
               /\ acc.result.authorized
               /\ ShareLookups(acc.result.io) = {}

\* A user who is not the author and has no share subscribes to a public checklist.
C1_Witness ==
    /\ acc # Idle
    /\ acc.permission = "subscribe"
    /\ acc.result.authorized
    /\ NoShare(acc.checklistId, acc.userId)
    /\ \E r \in checklist :
           r.id = acc.checklistId /\ r.isPublic = "true" /\ r.author # acc.userId

\* C2: on a public checklist, a user who is not the author and has no share is
\* allowed read with reason public_checklist and denied update with reason
\* no_role; no role is returned and create, update, delete and share are denied.
C2_PublicGivesNoWriteRole ==
    acc # Idle =>
        \A r \in checklist :
            (/\ r.id = acc.checklistId
             /\ r.isPublic = "true"
             /\ r.author # acc.userId
             /\ NoShare(acc.checklistId, acc.userId))
            => /\ acc.permission = "read"
                    => acc.result.authorized /\ acc.result.reason = "public_checklist"
               /\ acc.permission = "update"
                    => ~acc.result.authorized /\ acc.result.reason = "no_role"
               /\ acc.permission \in {"create", "update", "delete", "share"}
                    => ~acc.result.authorized
               /\ acc.result.role = Absent

\* The update of a public checklist by a stranger is denied with no_role.
C2_Witness ==
    /\ acc # Idle
    /\ acc.permission = "update"
    /\ ~acc.result.authorized
    /\ acc.result.reason = "no_role"
    /\ NoShare(acc.checklistId, acc.userId)
    /\ \E r \in checklist :
           r.id = acc.checklistId /\ r.isPublic = "true" /\ r.author # acc.userId

\* C3: for an existing checklist, checkChecklistAccess(id, author, delete) is
\* authorized with role OWNER whatever the share table holds, and no share
\* lookup is made when the caller is the author.
C3_AuthorIsOwner ==
    acc # Idle =>
        \A r \in checklist :
            (r.id = acc.checklistId /\ r.author = acc.userId)
            => /\ ShareLookups(acc.result.io) = {}
               /\ acc.permission = "delete"
                    => acc.result.authorized /\ acc.result.role = "OWNER"

\* The author deletes while the share table holds a lower role for the author.
C3_Witness ==
    /\ acc # Idle
    /\ acc.permission = "delete"
    /\ acc.result.authorized
    /\ acc.result.role = "OWNER"
    /\ \E r \in checklist : r.id = acc.checklistId /\ r.author = acc.userId
    /\ \/ HasShare(acc.checklistId, acc.userId, "VIEWER")
       \/ HasShare(acc.checklistId, acc.userId, "EDITOR")

\* C4 as stated: for every (checklist, user) pair with a VIEWER share row,
\* update, delete and share are denied and read and subscribe are allowed.
C4_ViewerShareAsStated ==
    acc # Idle =>
        \A r \in checklist :
            (r.id = acc.checklistId /\ HasShare(acc.checklistId, acc.userId, "VIEWER"))
            => /\ acc.permission \in {"update", "delete", "share"} => ~acc.result.authorized
               /\ acc.permission \in {"read", "subscribe"} => acc.result.authorized

\* C4: for every (checklist, user) pair with a VIEWER share row where the user
\* is not the checklist's author, update, delete and share are denied and read
\* and subscribe are allowed.
C4_ViewerShare ==
    acc # Idle =>
        \A r \in checklist :
            (/\ r.id = acc.checklistId
             /\ r.author # acc.userId
             /\ HasShare(acc.checklistId, acc.userId, "VIEWER"))
            => /\ acc.permission \in {"update", "delete", "share"} => ~acc.result.authorized
               /\ acc.permission \in {"read", "subscribe"} => acc.result.authorized

\* A VIEWER who is not the author reads a private checklist.
C4_Witness ==
    /\ acc # Idle
    /\ acc.permission = "read"
    /\ acc.result.authorized
    /\ acc.result.role = "VIEWER"
    /\ HasShare(acc.checklistId, acc.userId, "VIEWER")
    /\ \E r \in checklist :
           r.id = acc.checklistId /\ r.isPublic = "false" /\ r.author # acc.userId

\* C5: on a private checklist with author A, an EDITOR share for B and no share
\* for S: A's delete is allowed with role OWNER; B's delete is denied with
\* permission_denied; B's update is allowed with role EDITOR; S's read is
\* denied with no_role.
C5_EditorScenario ==
    acc # Idle =>
        \A r \in checklist :
            (r.id = acc.checklistId /\ r.isPublic = "false")
            => /\ (acc.userId = r.author /\ acc.permission = "delete")
                    => acc.result.authorized /\ acc.result.role = "OWNER"
               /\ (/\ acc.userId # r.author
                   /\ HasShare(acc.checklistId, acc.userId, "EDITOR")
                   /\ acc.permission = "delete")
                    => /\ ~acc.result.authorized
                       /\ acc.result.reason = "permission_denied"
               /\ (/\ acc.userId # r.author
                   /\ HasShare(acc.checklistId, acc.userId, "EDITOR")
                   /\ acc.permission = "update")
                    => acc.result.authorized /\ acc.result.role = "EDITOR"
               /\ (/\ acc.userId # r.author
                   /\ NoShare(acc.checklistId, acc.userId)
                   /\ acc.permission = "read")
                    => ~acc.result.authorized /\ acc.result.reason = "no_role"

\* Author A, EDITOR share for B, no share for S: B's delete is denied.
C5_Witness ==
    /\ acc # Idle
    /\ acc.userId = "B"
    /\ acc.permission = "delete"
    /\ ~acc.result.authorized
    /\ acc.result.reason = "permission_denied"
    /\ HasShare(acc.checklistId, "B", "EDITOR")
    /\ NoShare(acc.checklistId, "S")
    /\ \E r \in checklist :
           r.id = acc.checklistId /\ r.isPublic = "false" /\ r.author = "A"

\* C6 as stated: for a checklist id with no row, checkChecklistAccess denies
\* with reason not_found for every user and permission, with no share lookup.
C6_NotFoundAsStated ==
    (/\ acc # Idle
     /\ ~acc.result.threw
     /\ ~\E r \in checklist : r.id = acc.checklistId)
    => /\ ~acc.result.authorized
       /\ acc.result.reason = "not_found"
       /\ ShareLookups(acc.result.io) = {}

\* C6: for a checklist id with no row, checkChecklistAccess denies with reason
\* checklist_not_found for every user and permission, with no share lookup.
C6_NotFound ==
    (/\ acc # Idle
     /\ ~acc.result.threw
     /\ ~\E r \in checklist : r.id = acc.checklistId)
    => /\ ~acc.result.authorized
       /\ acc.result.reason = "checklist_not_found"
       /\ ShareLookups(acc.result.io) = {}

\* The checklist is gone while a share row for the caller is still there.
C6_Witness ==
    /\ acc # Idle
    /\ ~acc.result.threw
    /\ ~acc.result.authorized
    /\ acc.result.reason = "checklist_not_found"
    /\ ~\E r \in checklist : r.id = acc.checklistId
    /\ ~NoShare(acc.checklistId, acc.userId)

ItemOperations == {Name("updateChecklistItem"), Name("deleteChecklistItem")}

\* C7: for updateChecklistItem and deleteChecklistItem, a missing item row
\* denies with item_not_found after the item lookup alone; an item whose
\* section row is missing denies with section_not_found after the item and
\* section lookups alone; the lookups are made in the order item, section,
\* checklist.
C7_ItemResolutionOrder ==
    (/\ resp # Idle
     /\ getRootField(resp.event.query) \in ItemOperations
     /\ Truthy(CallerOf(resp.event))
     /\ Truthy(resp.event.variables.inputId)
     /\ ~resp.caught)
    => LET itemRows == {i \in checklistItem : i.id = resp.event.variables.inputId}
           lookups == EntityLookups(resp.io)
       IN  /\ itemRows = {}
                => /\ ~resp.isAuthorized
                   /\ LastReason = "item_not_found"
                   /\ lookups = <<"ChecklistItem">>
           /\ \A i \in itemRows :
                (~\E sec \in checklistSection : sec.id = i.sectionId)
                => /\ ~resp.isAuthorized
                   /\ LastReason = "section_not_found"
                   /\ lookups = <<"ChecklistItem", "ChecklistSection">>
           /\ IsPrefixOf(lookups,
                  <<"ChecklistItem", "ChecklistSection", "Checklist", "ChecklistShare">>)
           /\ Len(lookups) >= 1

\* An item outlives its section: the update is denied with section_not_found.
C7_Witness ==
    /\ resp # Idle
    /\ getRootField(resp.event.query) = Name("updateChecklistItem")
    /\ ~resp.isAuthorized
    /\ LastReason = "section_not_found"
    /\ \E i \in checklistItem :
           /\ i.id = resp.event.variables.inputId
           /\ ~\E sec \in checklistSection : sec.id = i.sectionId

\* C8: the share permission is denied to a caller whose role is EDITOR or
\* VIEWER by the explicit gate (reason share_requires_owner), the role's
\* permission set does not contain share either, and a call authorized for
\* share has role OWNER.
C8_ShareDoubleGate ==
    (acc # Idle /\ acc.permission = "share" /\ ~acc.result.threw)
    => /\ acc.result.authorized => acc.result.role = "OWNER"
       /\ \A r \in checklist, s \in checklistShare :
            (/\ r.id = acc.checklistId
             /\ r.author # acc.userId
             /\ s.checklistId = acc.checklistId
             /\ s.userId = acc.userId
             /\ s.role \in {"EDITOR", "VIEWER"})
            => /\ ~acc.result.authorized
               /\ acc.result.reason = "share_requires_owner"
               /\ ~RoleHasPermission(s.role, "share")

\* An EDITOR asks for the share permission and is stopped by the explicit gate.
C8_Witness ==
    /\ acc # Idle
    /\ acc.permission = "share"
    /\ ~acc.result.authorized
    /\ acc.result.reason = "share_requires_owner"
    /\ HasShare(acc.checklistId, acc.userId, "EDITOR")
    /\ \E r \in checklist : r.id = acc.checklistId /\ r.author # acc.userId

\* The operations the policy table names: the exactly named ones, the list of
\* shares, and the subscriptions, which the table names by their prefix.
InPolicyTable(name) ==
    \/ name \in ExactNames
    \/ name = Prefixed("listChecklistShare", "s")
    \/ name.pre \in {"onCreate", "onUpdate", "onDelete"}

\* A request with an operation name and a caller identity that was evaluated
\* without an exception.
Evaluated ==
    /\ resp # Idle
    /\ Truthy(CallerOf(resp.event))
    /\ getRootField(resp.event.query) # NoName
    /\ ~resp.caught

\* C9 as stated: every operation name that is not one of the operations the
\* policy table names is denied with reason unknown_operation.
C9_DefaultDenyAsStated ==
    (Evaluated /\ ~InPolicyTable(getRootField(resp.event.query)))
    => ~resp.isAuthorized /\ LastReason = "unknown_operation"

\* C9: every operation name that is none of the exactly matched names and
\* does not begin with onCreate, onUpdate, onDelete or listChecklistShare is
\* denied with reason unknown_operation.
C9_DefaultDeny ==
    (/\ Evaluated
     /\ getRootField(resp.event.query) \notin ExactNames
     /\ getRootField(resp.event.query).pre \notin RoutedPrefixes)
    => ~resp.isAuthorized /\ LastReason = "unknown_operation"

\* An operation the router does not know is denied.
C9_Witness ==
    /\ Evaluated
    /\ getRootField(resp.event.query) = Name("bogusOperation")
    /\ ~resp.isAuthorized
    /\ LastReason = "unknown_operation"

\* C10: every request of a caller with a decodable identity whose operation
\* name starts with onCreate, onUpdate or onDelete is allowed, whatever the
\* state of the entity store and of table discovery.
C10_SubscriptionsAlwaysAllowed ==
    (/\ resp # Idle
     /\ Truthy(CallerOf(resp.event))
     /\ IsSubscription(getRootField(resp.event.query)))
    => resp.isAuthorized

\* The operation name and the arguments of the request being answered.
FieldOf(ev) == getRootField(ev.query)

\* C11: listChecklists is allowed exactly when filter.author.eq is the caller
\* or filter.isPublic.eq is true; every other listChecklists request (no
\* filter, another user's author id, isPublic false) is denied with reason
\* unscoped_list.
C11_ListChecklistsScoped ==
    (Evaluated /\ FieldOf(resp.event) = Name("listChecklists"))
    => LET v == resp.event.variables
           scoped == v.filterAuthor = CallerOf(resp.event) \/ v.filterIsPublic = "true"
       IN  /\ resp.isAuthorized <=> scoped
           /\ scoped => LastReason = "scoped_list"
           /\ ~scoped => LastReason = "unscoped_list"
           /\ EntityLookups(resp.io) = <<>>

\* A list scoped to another user's author id is denied.
C11_Witness ==
    /\ Evaluated
    /\ FieldOf(resp.event) = Name("listChecklists")
    /\ Truthy(resp.event.variables.filterAuthor)
    /\ resp.event.variables.filterAuthor # CallerOf(resp.event)
    /\ ~resp.isAuthorized
    /\ LastReason = "unscoped_list"

\* The caller is the author of the stored checklist c.
AuthorOf(c, u) == \E r \in checklist : r.id = c /\ r.author = u

\* C12: createChecklistShare is allowed if and only if input.userId is the
\* caller, or the checklist input.checklistId exists and its author is the
\* caller; otherwise (also for a missing or nonexistent checklist) it is
\* denied.
C12_CreateShare ==
    (Evaluated /\ FieldOf(resp.event) = Name("createChecklistShare"))
    => LET v == resp.event.variables
       IN  resp.isAuthorized <=>
               \/ v.inputUserId = CallerOf(resp.event)
               \/ Truthy(v.inputChecklistId)
                    /\ AuthorOf(v.inputChecklistId, CallerOf(resp.event))

\* A caller who is not the author is refused a share for somebody else on an
\* existing checklist.
C12_Witness ==
    /\ Evaluated
    /\ FieldOf(resp.event) = Name("createChecklistShare")
    /\ resp.event.variables.inputUserId # CallerOf(resp.event)
    /\ \E r \in checklist : /\ r.id = resp.event.variables.inputChecklistId
                            /\ r.author # CallerOf(resp.event)
    /\ ~resp.isAuthorized
    /\ LastReason = "not_authorized_to_create_share"

ManageShareOperations == {Name("updateChecklistShare"), Name("deleteChecklistShare")}

\* C13: updateChecklistShare and deleteChecklistShare are allowed only if the
\* caller is the author of the checklist the share belongs to, that is of the
\* checklist named in the share's key input.checklistId; a caller who is not
\* its author is denied, whatever role they hold and whoever the share is for.
C13_ManageShareAuthorOnly ==
    (Evaluated /\ FieldOf(resp.event) \in ManageShareOperations)
    => \A r \in checklist :
           (/\ r.id = resp.event.variables.inputChecklistId
            /\ r.author # CallerOf(resp.event))
           => ~resp.isAuthorized

\* C14: a list-shares request is allowed if it is scoped to the caller's own
\* userId (variables.userId or filter.userId.eq), or filtered by a share
\* token, or the caller is the author of the checklist filter.checklistId.eq;
\* every other list-shares request is denied with reason invalid_share_list.
C14_ListShares ==
    (Evaluated /\ IsShareList(FieldOf(resp.event)))
    => LET v == resp.event.variables
           caller == CallerOf(resp.event)
           scoped == \/ v.userId = caller
                     \/ v.filterUserId = caller
                     \/ Truthy(v.filterShareToken)
                     \/ Truthy(v.filterChecklistId) /\ AuthorOf(v.filterChecklistId, caller)
       IN  /\ resp.isAuthorized <=> scoped
           /\ ~scoped => LastReason = "invalid_share_list"

\* Listing by another user's userId, and listing by the id of a checklist of
\* another author, are denied.
C14_Witness ==
    /\ Evaluated
    /\ IsShareList(FieldOf(resp.event))
    /\ ~resp.isAuthorized
    /\ LastReason = "invalid_share_list"
    /\ \/ /\ Truthy(resp.event.variables.filterUserId)
          /\ resp.event.variables.filterUserId # CallerOf(resp.event)
          /\ checklist # {}
       \/ \E r \in checklist : /\ r.id = resp.event.variables.filterChecklistId
                               /\ r.author # CallerOf(resp.event)

\* The entity id an operation branch needs to decide, as the branch reads it
\* from the arguments; NoId for a branch that needs none.
NoId == "none"
IdArgument(field, v) ==
    IF field = Name("getChecklist") THEN v.id
    ELSE IF field \in {Name("updateChecklist"), Name("deleteChecklist")} THEN v.inputId
    ELSE IF field = Name("listChecklistSections") THEN v.filterChecklistId
    ELSE IF field = Name("createChecklistSection") THEN v.inputChecklistId
    ELSE IF field \in {Name("updateChecklistSection"), Name("deleteChecklistSection")}
    THEN v.inputId
    ELSE IF field = Name("listChecklistItems") THEN v.filterSectionId
    ELSE IF field = Name("createChecklistItem") THEN v.inputSectionId
    ELSE IF field \in {Name("updateChecklistItem"), Name("deleteChecklistItem")}
    THEN v.inputId
    ELSE IF field \in ManageShareOperations
    THEN IF Truthy(v.checklistId) THEN v.checklistId ELSE v.inputChecklistId
    ELSE NoId

\* The deny reasons that name the id that was missing.
MissingIdReasons ==
    {"missing_id", "missing_checklistId", "missing_section_id", "missing_sectionId",
     "missing_item_id"}

\* C15: in every operation branch that needs an entity id, a request of an
\* identified caller that lacks the id (and is evaluated without an exception)
\* is denied with a reason that names the missing id, and the handler has
\* made no lookup for the request: no entity read and no table enumeration.
C15_FailFast ==
    (/\ Evaluated
     /\ ~Truthy(IdArgument(FieldOf(resp.event), resp.event.variables)))
    => /\ ~resp.isAuthorized
       /\ LastReason \in MissingIdReasons
       /\ resp.io = <<>>

\* C16: for a caller who is not the author of a private checklist and whose
\* share row stores a role other than exactly OWNER, EDITOR or VIEWER,
\* checkChecklistAccess returns, for every permission, the verdict it returns
\* when there is no share row: authorized=false with reason no_role.
C16_InvalidRoleIsNoRole ==
    acc # Idle =>
        \A r \in checklist, s \in checklistShare :
            (/\ r.id = acc.checklistId
             /\ r.author # acc.userId
             /\ r.isPublic = "false"
             /\ s.checklistId = acc.checklistId
             /\ s.userId = acc.userId
             /\ s.role \notin Roles)
            => /\ ~acc.result.threw
               /\ ~acc.result.authorized
               /\ acc.result.reason = "no_role"

Returned(tables) ==
    {tables.checklist, tables.checklistShare, tables.checklistSection, tables.checklistItem}

SandboxMode == ~Truthy(amplifyBranch) \/ amplifyBranch = "sandbox"

\* A call of getTableNames that enumerated the tables and succeeded.
FreshlyResolved ==
    /\ acc # Idle
    /\ acc.kind = "resolved"
    /\ ~acc.result.threw
    /\ acc.result.io # <<>>

\* C18: with tables of a sandbox and of branch deployments side by side,
\* resolution in sandbox mode never returns a table tagged deployment-type
\* branch, resolution for branch main never returns a sandbox-tagged table nor
\* a table of another branch name, and a table whose tags cannot be read is
\* never returned.
C18_EnvironmentIsolation ==
    FreshlyResolved =>
        \A i \in 1..Len(account) :
            account[i].name \in Returned(acc.result.tables)
            => /\ account[i].tagsReadable
               /\ SandboxMode
                    => TagValue(account[i].tags, "amplify:deployment-type") # "branch"
               /\ amplifyBranch = "main"
                    => /\ TagValue(account[i].tags, "amplify:deployment-type") # "sandbox"
                       /\ TagValue(account[i].tags, "amplify:branch-name") = "main"

\* Resolution for branch main succeeds next to the tables of branch dev, and
\* resolution in sandbox mode succeeds next to the tables of branch main.
C18_Witness ==
    /\ FreshlyResolved
    /\ \/ /\ amplifyBranch = "main"
          /\ \E i \in 1..Len(account) :
                 TagValue(account[i].tags, "amplify:branch-name") = "dev"
       \/ /\ SandboxMode
          /\ \E i \in 1..Len(account) :
                 TagValue(account[i].tags, "amplify:branch-name") = "main"
    /\ \E i \in 1..Len(account) :
           /\ ~account[i].tagsReadable
           /\ account[i].name \notin Returned(acc.result.tables)

\* C19: once a call of getTableNames has succeeded, every later call in the
\* process returns the identical four identifiers and performs no ListTables,
\* DescribeTable or ListTagsOfResource, whatever has happened to the tables
\* of the account and to AMPLIFY_BRANCH since.
C19_ResolutionCached ==
    (acc # Idle /\ acc.kind = "resolved" /\ acc.before # NoTables)
    => /\ ~acc.result.threw
       /\ acc.result.tables = acc.before
       /\ acc.result.io = <<>>
       /\ cachedTableNames = acc.before

\* A call answered from the cache although a discovery made now would fail
\* or name other tables.
C19_Witness ==
    /\ acc # Idle
    /\ acc.kind = "resolved"
    /\ acc.before # NoTables
    /\ acc.result.tables = acc.before
    /\ acc.result.io = <<>>
    /\ getTableNames(NoTables).tables # acc.before

\* C20: when one of the four tables cannot be found, resolution fails with an
\* error that is fatal and not retried: the handler does not turn the failure
\* into a deny verdict, and a later call of getTableNames in the same process
\* does not enumerate the tables again.
C20_FailureFatalNotRetried ==
    /\ (acc # Idle /\ acc.kind = "resolved" /\ acc.retried) => acc.result.io = <<>>
    /\ (resp # Idle /\ resp.caught /\ cachedTableNames = NoTables)
       => ~(resp.kind = "handled" /\ ~resp.isAuthorized)

\* C21: every request the handler answers has, when it returns, logged a
\* decision record whose stage (ALLOW or DENY) agrees with the returned
\* isAuthorized, and every deny comes with a record that carries a reason:
\* also the denies for an undecodable token, for a token without a user
\* identifier and for an exception during the evaluation.
C21_DecisionRecord ==
    resp # Idle =>
        /\ Len(resp.log) > 0
        /\ resp.log[Len(resp.log)].stage = (IF resp.isAuthorized THEN "ALLOW" ELSE "DENY")
        /\ ~resp.isAuthorized => Truthy(resp.log[Len(resp.log)].reason)

ChecklistKeyed ==
    {Name(n) : n \in {"getChecklist", "updateChecklist", "deleteChecklist",
                      "listChecklistSections", "createChecklistSection"}}
SectionKeyed ==
    {Name(n) : n \in {"updateChecklistSection", "deleteChecklistSection",
                      "listChecklistItems", "createChecklistItem"}}

\* The permission of an entity operation, by the verb of its name.
PermissionOf(field) ==
    IF field \in {Name("getChecklist"), Name("listChecklistSections"),
                  Name("listChecklistItems")} THEN "read"
    ELSE IF field \in {Name("createChecklistSection"), Name("createChecklistItem")}
    THEN "create"
    ELSE IF field \in {Name("updateChecklist"), Name("updateChecklistSection"),
                       Name("updateChecklistItem")} THEN "update"
    ELSE "delete"

\* The stored parent references: the section of an item and the checklist of
\* a section, Absent when the row or the reference is missing.
SectionOfItem(i) ==
    IF \E r \in checklistItem : r.id = i
    THEN (CHOOSE r \in checklistItem : r.id = i).sectionId ELSE Absent
ChecklistOfSection(sec) ==
    IF \E r \in checklistSection : r.id = sec
    THEN (CHOOSE r \in checklistSection : r.id = sec).checklistId ELSE Absent

\* The checklist reached from the id in the arguments of an entity operation.
ChecklistReached(field, id) ==
    IF field \in ChecklistKeyed THEN id
    ELSE IF field \in SectionKeyed THEN ChecklistOfSection(id)
    ELSE ChecklistOfSection(SectionOfItem(id))

\* The handler answered as checkChecklistAccess answers for checklist c.
AnswersAs(result) ==
    /\ resp.isAuthorized = result.authorized
    /\ LastReason = result.reason

\* C22: for every entity operation that carries its id, the verdict of the
\* handler is the verdict of checkChecklistAccess for the checklist reached
\* from the id through the stored parent references, the caller, and the
\* permission of the operation (get/list read, create create, update update,
\* delete delete); a section-keyed operation whose section row is missing is
\* denied with section_not_found.
C22_HandlerRefinesAccess ==
    (/\ Evaluated
     /\ FieldOf(resp.event) \in ChecklistKeyed \cup SectionKeyed \cup ItemOperations
     /\ Truthy(IdArgument(FieldOf(resp.event), resp.event.variables)))
    => LET field == FieldOf(resp.event)
           id == IdArgument(field, resp.event.variables)
       IN  /\ Truthy(ChecklistReached(field, id))
              => AnswersAs(checkChecklistAccess(ChecklistReached(field, id),
                                                CallerOf(resp.event), PermissionOf(field),
                                                cachedTableNames))
           /\ (field \in SectionKeyed /\ ~Truthy(ChecklistReached(field, id)))
              => ~resp.isAuthorized /\ LastReason = "section_not_found"

\* An editor is refused the deletion of a section, and a section-keyed
\* operation on a section that does not exist is refused.
C22_Witness ==
    /\ Evaluated
    /\ FieldOf(resp.event) = Name("deleteChecklistSection")
    /\ Truthy(ChecklistOfSection(resp.event.variables.inputId))
    /\ HasShare(ChecklistOfSection(resp.event.variables.inputId), CallerOf(resp.event),
                "EDITOR")
    /\ ~AuthorOf(ChecklistOfSection(resp.event.variables.inputId), CallerOf(resp.event))
    /\ ~resp.isAuthorized
    /\ LastReason = "permission_denied"

\* C23: the author of a checklist is immutable: no request the authorizer
\* allows, in particular no updateChecklist of a caller who holds the update
\* permission, leaves a checklist with another author than it had.
C23_AuthorImmutable ==
    [][\A r \in checklist : \A q \in checklist' : r.id = q.id => r.author = q.author]_vars

\* C24: a request that changes the isPublic flag of a checklist is authorized
\* only when the caller's role on the checklist is OWNER (the author, or the
\* holder of an OWNER share); an EDITOR or a VIEWER cannot change the flag.
C24_PublicFlagOwnerOnly ==
    (/\ Evaluated
     /\ FieldOf(resp.event) = Name("updateChecklist")
     /\ resp.isAuthorized)
    => \A r \in checklist :
           (/\ r.id = resp.event.variables.inputId
            /\ resp.event.variables.inputIsPublic # Absent
            /\ resp.event.variables.inputIsPublic # r.isPublic)
           => \/ r.author = CallerOf(resp.event)
              \/ HasShare(r.id, CallerOf(resp.event), "OWNER")

\* C25: a caller whose role on a checklist is EDITOR is authorized to create
\* sections of the checklist (createChecklistSection) and to delete them
\* (deleteChecklistSection).
C25_EditorCreatesAndDeletesSections ==
    (/\ Evaluated
     /\ FieldOf(resp.event) \in {Name("createChecklistSection"), Name("deleteChecklistSection")}
     /\ Truthy(IdArgument(FieldOf(resp.event), resp.event.variables)))
    => LET c == ChecklistReached(FieldOf(resp.event),
                                 IdArgument(FieldOf(resp.event), resp.event.variables))
       IN  (/\ \E r \in checklist : r.id = c /\ r.author # CallerOf(resp.event)
            /\ HasShare(c, CallerOf(resp.event), "EDITOR"))
           => resp.isAuthorized

\* C26: however concurrent calls of getTableNames that start on an empty
\* cache interleave (tables and environment unchanged), all writes of the
\* cache store the same value, the cache once set keeps that value, and every
\* call ends as a single sequential call ends: with the same four
\* identifiers, or with the same failure.
C26_ConcurrentResolution ==
    (acc # Idle /\ acc.kind = "racing")
    => /\ \A i, j \in 1..Len(acc.writes) : acc.writes[i] = acc.writes[j]
       /\ cachedTableNames # NoTables
            => Len(acc.writes) > 0 /\ cachedTableNames = acc.writes[1]
       /\ \A p \in Callers :
              acc.calls[p].pc = "done"
              => /\ acc.calls[p].threw = getTableNames(NoTables).threw
                 /\ acc.calls[p].tables = getTableNames(NoTables).tables

\* Two calls that both started on the empty cache have both written it, and
\* both have returned.
C26_Witness ==
    /\ acc # Idle
    /\ acc.kind = "racing"
    /\ Len(acc.writes) = 2
    /\ \A p \in Callers : acc.calls[p].pc = "done" /\ ~acc.calls[p].threw

\* C27: a user who is not the author of a private checklist comes to hold a
\* role on it only through a request of the checklist's author, or through
\* the user's own request that redeems an invite of the checklist (a pending
\* share) at the invite's role; never through the user's own
\* createChecklistShare alone.
C27_NoSelfGrantedAccess ==
    [][\A s \in checklistShare' \ checklistShare :
           (/\ ~IsPending(s.userId)
            /\ \E r \in checklist : /\ r.id = s.checklistId
                                     /\ r.isPublic = "false"
                                     /\ r.author # s.userId)
           => \/ AuthorOf(s.checklistId, CallerOf(resp.event))
              \/ /\ CallerOf(resp.event) = s.userId
                 /\ \E inv \in checklistShare : /\ inv.checklistId = s.checklistId
                                                 /\ IsPending(inv.userId)
                                                 /\ inv.role = s.role]_vars

\* C28: a user who is not the author of a checklist and holds a share on it
\* leaves the list with a deleteChecklistShare for the user's own
\* (checklistId, userId) share: the request is authorized, so that the share
\* is deleted and the access ends.
C28_LeaveSharedList ==
    (/\ Evaluated
     /\ FieldOf(resp.event) = Name("deleteChecklistShare")
     /\ ~Truthy(resp.event.variables.checklistId)
     /\ resp.event.variables.inputUserId = CallerOf(resp.event)
     /\ \E r \in checklist : /\ r.id = resp.event.variables.inputChecklistId
                              /\ r.author # CallerOf(resp.event)
     /\ ~NoShare(resp.event.variables.inputChecklistId, CallerOf(resp.event)))
    => resp.isAuthorized

\* C29: whenever the handler returns isAuthorized=true, every root field of
\* the query, taken by its real field name and not by an alias, and not only
\* the first one, is an operation the policy allows for the caller with the
\* arguments of the request.
C29_DecisionSoundForQuery ==
    (Evaluated /\ resp.isAuthorized)
    => \A i \in 1..Len(resp.event.query) :
           handler(Event(resp.event.token, Query(resp.event.query[i].field),
                         resp.event.variables),
                   cachedTableNames).isAuthorized

\* C30: whenever getTableNames succeeds, the checklist, share, section and
\* item tables it returns belong to one and the same deployment, also when
\* several deployments that match the environment share the account.
C30_OneDeployment ==
    FreshlyResolved =>
        \A t, u \in Returned(acc.result.tables) : t.dep = u.dep

====
